---- MODULE Spec2Model ----
(***************************************************************************)
(* The terminal session manager of chatshell (src-tauri/src/commands.rs):  *)
(* the TerminalManager registry, its operations, the per-session output    *)
(* listener task and the plugin chain.                                     *)
(*                                                                         *)
(* Text is a sequence of code points, PTY data a sequence of bytes.  Every *)
(* Manager operation runs with the TERMINAL_MANAGER mutex held by its      *)
(* caller (it takes &mut self), so each is one atomic action; the listener *)
(* task is split at its blocking points (read, mutex, emit).  A PTY write  *)
(* that blocks is split in two under SpecLocks.                            *)
(***************************************************************************)
EXTENDS Integers, Sequences, FiniteSets, TLC

\* ------------------------------------------------------------- bounds
MaxSessions == 2
MaxReads == 2
MaxChain == 2
MaxHistory == 2
Workers == 2

\* ---------------------------------------------------------- constants
None == 0
DefaultColumns == 80
DefaultRows == 24
Replacement == 65533

Ids == 1..MaxSessions

\* TERMINAL_MANAGER unlocked: no call holds it.
Free == [op |-> "-", sid |-> None, data |-> <<>>]

\* ------------------------------------------------------------- inputs
\* Geometries a caller may ask for.
Sizes == { <<DefaultColumns, DefaultRows>>, <<120, 40>> }
\* Byte chunks a PTY read may return: "ok", and an invalid byte followed by
\* the two bytes of U+00E9.
ReadChunks == { <<111, 107>>, <<255, 195, 169>> }
\* Strings a caller may write, as their UTF-8 bytes: "ls".
WriteData == { <<108, 115>> }
\* How openpty and spawn_command may go in create_session.
PtyResults == { "Ok", "Failed to create PTY", "Failed to spawn shell" }
\* Command lines a caller may submit: "ll \u00e9" (an alias and an argument)
\* and " " (blank).
Commands == { <<108, 108, 32, 233>>, <<32>> }
\* Raw input a caller may send: Ctrl-C, and U+00E9.
Inputs == { <<3>>, <<233>> }

VARIABLES
    sessions,        \* TerminalManager.sessions: id -> TerminalSession
    active_session,  \* TerminalManager.active_session (None or an id)
    issued,          \* the ids Uuid::new_v4 has returned so far
    listener,        \* per id: the spawned reader task (pc, reads so far, chunk in hand)
    shell,           \* per id: the child shell process on the PTY slave
    sink,            \* the "terminal-output" events the UI has received, in order
    guard            \* TERMINAL_MANAGER's mutex: Free, or the call that holds it

vars == <<sessions, active_session, issued, listener, shell, sink, guard>>

\* ------------------------------------------------------------ helpers
Insert(m, k, v) == [x \in DOMAIN m \cup {k} |-> IF x = k THEN v ELSE m[x]]

Remove(m, k) == [x \in DOMAIN m \ {k} |-> m[x]]

\* The reads all listeners have made so far.
RECURSIVE TotalReads(_, _)
TotalReads(lst, S) ==
    IF S = {} THEN 0
    ELSE LET x == CHOOSE y \in S : TRUE IN lst[x].n + TotalReads(lst, S \ {x})

\* One thing an operation did: a plugin hook call, a PTY call, a registry step.
Ev(k, plugin, data) == [k |-> k, plugin |-> plugin, data |-> data]

\* ------------------------------------------------------------ plugins
\* A plugin: its name and the state the built-in plugins keep: the commands
\* of HistoryPlugin, and the session ids TimingPlugin holds a start time for
\* (the times themselves, read from the clock, are left out).
Plugin(name) == [name |-> name, history |-> <<>>, command_start_times |-> {}]

\* create_session's chain: HistoryPlugin, then ColorPlugin.
DefaultPlugins == << Plugin("history"), Plugin("color") >>

\* The names of the plugins of this repository; all keep the trait's default
\* on_output or override it with `output.to_string()`.
BuiltIn ==
    {"history", "color", "timing", "git", "autocomplete", "alias", "theme", "monitor"}

to_uppercase(c) ==
    IF c \in 97..122 THEN c - 32
    ELSE IF c = 233 THEN 201
    ELSE c

to_lowercase(c) ==
    IF c \in 65..90 THEN c + 32
    ELSE IF c = 201 THEN 233
    ELSE c

\* Transforming plugins a chain may be given: "upper" uppercases, "star"
\* prefixes '*', "lower" lowercases.
ExampleOnOutput(name, text) ==
    CASE name = "upper" -> [i \in 1..Len(text) |-> to_uppercase(text[i])]
      [] name = "lower" -> [i \in 1..Len(text) |-> to_lowercase(text[i])]
      [] name = "star" -> <<42>> \o text
      [] OTHER -> text

\* A ColorPlugin that wraps the chunk in a colour escape sequence.
on_output_colors(plugin, text) ==
    IF plugin.name = "color" THEN <<27, 91, 51, 50, 109>> \o text \o <<27, 91, 48, 109>>
    ELSE IF plugin.name \in BuiltIn THEN text
    ELSE ExampleOnOutput(plugin.name, text)

\* TerminalPlugin::on_output of one plugin: `output.to_string()` for the
\* trait's default and for the overrides of this repository.
on_output(plugin, text) ==
    IF plugin.name \in BuiltIn THEN text ELSE ExampleOnOutput(plugin.name, text)

\* The hooks that return nothing leave the built-in plugins of the chain as
\* they are (on_session_start, on_session_end: the trait's defaults).
on_session_start(plugin, sid) == plugin

on_session_end(plugin, sid) == plugin

\* char::is_whitespace, among the code points below U+0080.
is_whitespace(c) == c \in {9, 10, 11, 12, 13, 32}

RECURSIVE trim_start(_)
trim_start(t) ==
    IF t # <<>> /\ is_whitespace(Head(t)) THEN trim_start(Tail(t)) ELSE t

RECURSIVE trim_end(_)
trim_end(t) ==
    IF t # <<>> /\ is_whitespace(t[Len(t)])
        THEN trim_end(SubSeq(t, 1, Len(t) - 1))
    ELSE t

\* str::trim
trim(t) == trim_end(trim_start(t))

\* str::split_whitespace: the maximal runs of non-whitespace, in order.
RECURSIVE split_whitespace(_)
split_whitespace(t) ==
    LET s == trim_start(t) IN
    IF s = <<>> THEN <<>>
    ELSE LET n == CHOOSE i \in 1..Len(s) :
                      /\ \A j \in 1..i : ~is_whitespace(s[j])
                      /\ (i = Len(s) \/ is_whitespace(s[i + 1]))
         IN <<SubSeq(s, 1, n)>> \o split_whitespace(SubSeq(s, n + 1, Len(s)))

\* [&str]::join
RECURSIVE join(_, _)
join(parts, sep) ==
    IF parts = <<>> THEN <<>>
    ELSE IF Len(parts) = 1 THEN parts[1]
    ELSE parts[1] \o sep \o join(Tail(parts), sep)

\* AliasPlugin::new: ll, la, l, .., ..., gs, ga, gc, gp, gl and what each
\* stands for.
aliases ==
    {
      <<<<108, 108>>, <<108, 115, 32, 45, 108, 97>>>>,
      <<<<108, 97>>, <<108, 115, 32, 45, 65>>>>,
      <<<<108>>, <<108, 115, 32, 45, 67, 70>>>>,
      <<<<46, 46>>, <<99, 100, 32, 46, 46>>>>,
      <<<<46, 46, 46>>, <<99, 100, 32, 46, 46, 47, 46, 46>>>>,
      <<<<103, 115>>, <<103, 105, 116, 32, 115, 116, 97, 116, 117, 115>>>>,
      <<<<103, 97>>, <<103, 105, 116, 32, 97, 100, 100>>>>,
      <<<<103, 99>>, <<103, 105, 116, 32, 99, 111, 109, 109, 105, 116>>>>,
      <<<<103, 112>>, <<103, 105, 116, 32, 112, 117, 115, 104>>>>,
      <<<<103, 108>>, <<103, 105, 116, 32, 112, 117, 108, 108>>>>
    }

\* AliasPlugin::expand_alias: the first word is replaced if it is an alias,
\* and the words after it are joined by single spaces; a command whose first
\* word is no alias is returned as it is.
expand_alias(command) ==
    LET parts == split_whitespace(trim(command)) IN
    IF parts = <<>> THEN command
    ELSE IF \E a \in aliases : a[1] = parts[1]
        THEN LET expanded == (CHOOSE a \in aliases : a[1] = parts[1])[2] IN
             IF Len(parts) > 1
                 THEN expanded \o <<32>> \o join(Tail(parts), <<32>>)
             ELSE expanded
    ELSE command

\* str::as_bytes: the UTF-8 encoding, for code points below U+0800.
RECURSIVE as_bytes(_)
as_bytes(t) ==
    IF t = <<>> THEN <<>>
    ELSE (IF Head(t) < 128 THEN <<Head(t)>>
          ELSE <<192 + (Head(t) \div 64), 128 + (Head(t) % 64)>>) \o as_bytes(Tail(t))

\* TerminalPlugin::on_command_start of one plugin: HistoryPlugin pushes a
\* command that is not blank; AliasPlugin expands the command and prints the
\* expansion, which it keeps nowhere; TimingPlugin inserts the time under the
\* session id, over an entry that is there; the trait's default does nothing.
on_command_start(plugin, command, sid) ==
    IF plugin.name = "history" /\ trim(command) # <<>>
        THEN [plugin EXCEPT !.history = Append(@, command)]
    ELSE IF plugin.name = "timing"
        THEN [plugin EXCEPT !.command_start_times = @ \cup {sid}]
    ELSE plugin

\* TerminalPlugin::on_command_end of one plugin: TimingPlugin removes the
\* session's start time and prints the duration; the trait's default does
\* nothing.
on_command_end(plugin, exit_code, sid) ==
    IF plugin.name = "timing"
        THEN [plugin EXCEPT !.command_start_times = @ \ {sid}]
    ELSE plugin

\* A loop over session.plugins that calls the last plugin first.
RECURSIVE RunOnCommandStartReversed(_, _, _)
RunOnCommandStartReversed(plugins, command, sid) ==
    IF plugins = <<>> THEN [plugins |-> <<>>, ev |-> <<>>]
    ELSE LET rest == RunOnCommandStartReversed(Tail(plugins), command, sid) IN
         [plugins |-> <<on_command_start(Head(plugins), command, sid)>> \o rest.plugins,
          ev |-> rest.ev \o <<Ev("on_command_start", Head(plugins).name, command)>>]

\* `for plugin in &mut session.plugins { plugin.on_command_start(&command, ..) }`:
\* the plugins after the loop and the calls made, in order.
RECURSIVE RunOnCommandStart(_, _, _)
RunOnCommandStart(plugins, command, sid) ==
    IF plugins = <<>> THEN [plugins |-> <<>>, ev |-> <<>>]
    ELSE LET rest == RunOnCommandStart(Tail(plugins), command, sid) IN
         [plugins |-> <<on_command_start(Head(plugins), command, sid)>> \o rest.plugins,
          ev |-> <<Ev("on_command_start", Head(plugins).name, command)>> \o rest.ev]

\* String::from_utf8_lossy on bytes below 0xE0 or above 0xF4: ASCII, a two-byte
\* sequence, or U+FFFD for each byte that starts no valid sequence.
RECURSIVE from_utf8_lossy(_)
from_utf8_lossy(b) ==
    IF b = <<>> THEN <<>>
    ELSE IF Head(b) < 128 THEN <<Head(b)>> \o from_utf8_lossy(Tail(b))
    ELSE IF Head(b) \in 194..223 /\ Len(b) >= 2 /\ b[2] \in 128..191
         THEN <<(Head(b) - 192) * 64 + (b[2] - 128)>> \o from_utf8_lossy(Tail(Tail(b)))
    ELSE <<Replacement>> \o from_utf8_lossy(Tail(b))

\* A loop that walks session.plugins from its end.
RECURSIVE RunOnOutputReversed(_, _)
RunOnOutputReversed(plugins, text) ==
    IF plugins = <<>> THEN text
    ELSE RunOnOutputReversed(SubSeq(plugins, 1, Len(plugins) - 1),
                             on_output(plugins[Len(plugins)], text))

\* The listener's loop over session.plugins: result = plugin.on_output(&result).
RECURSIVE RunOnOutput(_, _)
RunOnOutput(plugins, text) ==
    IF plugins = <<>> THEN text
    ELSE RunOnOutput(Tail(plugins), on_output(Head(plugins), text))

\* `for plugin in &mut session.plugins { plugin.<hook>(..) }`: the calls, in order.
HookCalls(plugins, hook) ==
    [i \in 1..Len(plugins) |-> Ev(hook, plugins[i].name, <<>>)]

\* ------------------------------------------------------ the PTY handle
\* A listener task: where it is in its loop (pc), why it left the loop (exit),
\* the reads it has made (n), and the chunk in hand: the bytes read (raw), the
\* text (out) and the on_output calls made on it (ev).
NoListener ==
    [pc |-> "None", exit |-> "-", n |-> 0, raw |-> <<>>, out |-> <<>>, ev |-> <<>>]

\* The listener task owns a clone of the session's Arc<Mutex<MasterPty>> and,
\* once started, a duplicate of the master descriptor, until the task ends.
Running == {"Reading", "Decoded", "Chain", "Processed"}

ListenerAlive(l) == l.pc \in {"Spawned", "Locked"} \cup Running

\* Who holds the Mutex around a session's MasterPty: the listener task in its
\* first block, a caller from `pty.lock()` in write_to_session to its return.
PtyLockHolder(sid) ==
    IF listener[sid].pc = "Locked" THEN "listener"
    ELSE IF guard.op = "libc::write" /\ guard.sid = sid THEN "caller"
    ELSE "-"

\* The master side is open while the registry's session or the listener task
\* holds it.
MasterOpen(sid, sess, lst) ==
    \/ sid \in DOMAIN sess
    \/ ListenerAlive(lst[sid])
    \/ guard.op = "create_session" /\ guard.sid = sid

\* Closing the last master descriptor hangs up the child shell.
AfterDrop(sess, lst) ==
    [i \in Ids |->
        IF shell[i] = "running" /\ ~MasterOpen(i, sess, lst) THEN "hungup" ELSE shell[i]]

\* -------------------------------------------------------------- Init
Init ==
    /\ sessions = << >>
    /\ active_session = None
    /\ issued = {}
    /\ listener = [i \in Ids |-> NoListener]
    /\ shell = [i \in Ids |-> "none"]
    /\ sink = <<>>
    /\ guard = Free

\* ------------------------------------------------ TerminalManager
\* Each method is an operator from the manager's state and the call's inputs
\* to what the call leaves behind: the map, active_session, the Result it
\* returns (res, and id for create_session) and what it did, in order (ev).
Ret(sess, act, res, id, ev) ==
    [sessions |-> sess, active_session |-> act, res |-> res, id |-> id, ev |-> ev]

\* A generator that numbers a session by the size of the map, so that an id
\* can come back while its first holder is still registered.
new_v4_by_count ==
    IF Cardinality(DOMAIN sessions) >= MaxSessions THEN None
    ELSE Cardinality(DOMAIN sessions) + 1

\* Uuid::new_v4(): an id never returned before.  Ids are opaque tokens that
\* the program only compares, so the unused ids are taken in order.
new_v4 ==
    IF issued = Ids THEN None
    ELSE CHOOSE i \in Ids \ issued : \A j \in Ids \ issued : i <= j

\* A create_session that spawns the listener before it opens the PTY, and
\* forgets the active session when it fails.
create_session_spawns_first(sid, size, pty) ==
    IF pty # "Ok" THEN Ret(sessions, None, pty, None, <<Ev("spawn_listener", "-", <<>>)>>)
    ELSE LET plugins == [i \in 1..Len(DefaultPlugins) |->
                            on_session_start(DefaultPlugins[i], sid)]
             session == [config |-> [columns |-> size[1], rows |-> size[2]],
                         plugins |-> plugins]
         IN Ret(Insert(sessions, sid, session), sid, "Ok", sid,
                <<Ev("spawn_listener", "-", <<>>)>>
                \o HookCalls(DefaultPlugins, "on_session_start")
                \o <<Ev("insert", "-", <<>>), Ev("set_active", "-", <<>>)>>)

\* A create_session that leaves a session that is active in place.
create_session_keeps_active(sid, size, pty) ==
    IF pty # "Ok" THEN Ret(sessions, active_session, pty, None, <<>>)
    ELSE LET plugins == [i \in 1..Len(DefaultPlugins) |->
                            on_session_start(DefaultPlugins[i], sid)]
             session == [config |-> [columns |-> size[1], rows |-> size[2]],
                         plugins |-> plugins]
         IN Ret(Insert(sessions, sid, session),
                IF active_session = None THEN sid ELSE active_session, "Ok", sid,
                <<Ev("spawn_listener", "-", <<>>)>>
                \o HookCalls(DefaultPlugins, "on_session_start")
                \o <<Ev("insert", "-", <<>>), Ev("set_active", "-", <<>>)>>)

\* create_session: pty is how openpty and spawn_command went.  On the two `?`
\* exits nothing has been done yet.  Otherwise the listener is spawned,
\* on_session_start runs on every plugin, the session is inserted and made
\* active.
create_session(sid, size, pty) ==
    IF pty # "Ok" THEN Ret(sessions, active_session, pty, None, <<>>)
    ELSE LET plugins == [i \in 1..Len(DefaultPlugins) |->
                            on_session_start(DefaultPlugins[i], sid)]
             session == [config |-> [columns |-> size[1], rows |-> size[2]],
                         plugins |-> plugins]
         IN Ret(Insert(sessions, sid, session), sid, "Ok", sid,
                <<Ev("spawn_listener", "-", <<>>)>>
                \o HookCalls(DefaultPlugins, "on_session_start")
                \o <<Ev("insert", "-", <<>>), Ev("set_active", "-", <<>>)>>)

\* write_to_session: data is data.as_bytes(), the one buffer given to
\* libc::write, and ret is its return value, -1 or the number of bytes the PTY
\* took; any ret >= 0 is Ok.
write_to_session(sid, data, ret) ==
    IF sid \notin DOMAIN sessions
        THEN Ret(sessions, active_session, "Session not found", None, <<>>)
    ELSE IF ret < 0
        THEN Ret(sessions, active_session, "Failed to write to PTY", None,
                 <<Ev("pty_write_err", "-", <<>>)>>)
    ELSE Ret(sessions, active_session, "Ok", None,
             <<Ev("pty_write", "-", data), Ev("pty_took", "-", SubSeq(data, 1, ret))>>)

\* A resize that gives the new geometry to every session.
resize_session_all(sid, cols, rows, ok) ==
    IF sid \notin DOMAIN sessions
        THEN Ret(sessions, active_session, "Session not found", None, <<>>)
    ELSE IF ~ok
        THEN Ret(sessions, active_session, "Failed to resize PTY", None,
                 <<Ev("pty_resize_err", "-", <<cols, rows>>)>>)
    ELSE Ret([o \in DOMAIN sessions |->
                 [sessions[o] EXCEPT !.config = [columns |-> cols, rows |-> rows]]],
             active_session, "Ok", None,
             <<Ev("pty_resize", "-", <<cols, rows>>)>>)

\* A resize that stores the new size before it asks the PTY.
resize_session_stores_first(sid, cols, rows, ok) ==
    IF sid \notin DOMAIN sessions
        THEN Ret(sessions, active_session, "Session not found", None, <<>>)
    ELSE LET stored == [sessions EXCEPT ![sid].config = [columns |-> cols, rows |-> rows]]
         IN IF ~ok
                THEN Ret(stored, active_session, "Failed to resize PTY", None,
                         <<Ev("pty_resize_err", "-", <<cols, rows>>)>>)
            ELSE Ret(stored, active_session, "Ok", None,
                     <<Ev("pty_resize", "-", <<cols, rows>>)>>)

\* resize_session: ok is whether MasterPty::resize succeeded; the stored
\* config is updated only after it did.
resize_session(sid, cols, rows, ok) ==
    IF sid \notin DOMAIN sessions
        THEN Ret(sessions, active_session, "Session not found", None, <<>>)
    ELSE IF ~ok
        THEN Ret(sessions, active_session, "Failed to resize PTY", None,
                 <<Ev("pty_resize_err", "-", <<cols, rows>>)>>)
    ELSE Ret([sessions EXCEPT ![sid].config = [columns |-> cols, rows |-> rows]],
             active_session, "Ok", None,
             <<Ev("pty_resize", "-", <<cols, rows>>)>>)

\* A close that forgets active_session.
close_session_keeps_active(sid) ==
    IF sid \notin DOMAIN sessions
        THEN Ret(sessions, active_session, "Session not found", None, <<>>)
    ELSE Ret(Remove(sessions, sid), active_session, "Ok", None,
             <<Ev("remove", "-", <<>>)>>
             \o HookCalls(sessions[sid].plugins, "on_session_end"))

\* A close that hands the active role on to a session that is left.
close_session_reassigns(sid) ==
    IF sid \notin DOMAIN sessions
        THEN Ret(sessions, active_session, "Session not found", None, <<>>)
    ELSE Ret(Remove(sessions, sid),
             IF active_session # sid THEN active_session
             ELSE IF DOMAIN sessions = {sid} THEN None
             ELSE CHOOSE o \in DOMAIN sessions \ {sid} : TRUE,
             "Ok", None,
             <<Ev("remove", "-", <<>>)>>
             \o HookCalls(sessions[sid].plugins, "on_session_end")
             \o (IF active_session = sid
                     THEN <<Ev("clear_active", "-", <<>>)>> ELSE <<>>))

\* close_session: the session is taken out of the map, on_session_end runs on
\* its plugins, and active_session is cleared when it named this id.
close_session(sid) ==
    IF sid \notin DOMAIN sessions
        THEN Ret(sessions, active_session, "Session not found", None, <<>>)
    ELSE Ret(Remove(sessions, sid),
             IF active_session = sid THEN None ELSE active_session,
             "Ok", None,
             <<Ev("remove", "-", <<>>)>>
             \o HookCalls(sessions[sid].plugins, "on_session_end")
             \o (IF active_session = sid
                     THEN <<Ev("clear_active", "-", <<>>)>> ELSE <<>>))

get_active_session == active_session

\* A set_active_session without the contains_key test.
set_active_session_unchecked(sid) ==
    Ret(sessions, sid, "Ok", None, <<Ev("set_active", "-", <<>>)>>)

set_active_session(sid) ==
    IF sid \in DOMAIN sessions
        THEN Ret(sessions, sid, "Ok", None, <<Ev("set_active", "-", <<>>)>>)
    ELSE Ret(sessions, active_session, "Session not found", None, <<>>)

\* ------------------------------------------------- Tauri commands
\* What the active-session commands return when active_session is None.
NoActiveSession ==
    Ret(sessions, active_session, "No active terminal session", None, <<>>)

\* create_shell: create_session with TerminalConfig::default().
create_shell(sid, pty) == create_session(sid, <<DefaultColumns, DefaultRows>>, pty)

\* A command submission that writes before it tells the plugins.
run_command_pty_writes_first(command, ret) ==
    IF get_active_session = None THEN NoActiveSession
    ELSE LET sid == get_active_session
             w == write_to_session(sid, as_bytes(command \o <<10>>), ret)
         IN IF sid \notin DOMAIN sessions THEN w
            ELSE LET hooks == RunOnCommandStart(sessions[sid].plugins, command, sid) IN
                 Ret([sessions EXCEPT ![sid].plugins = hooks.plugins],
                     active_session, w.res, None, w.ev \o hooks.ev)

\* A command submission that writes what the alias plugin makes of the command.
run_command_pty_expands(command, ret) ==
    IF get_active_session = None THEN NoActiveSession
    ELSE LET sid == get_active_session
             w == write_to_session(sid, as_bytes(expand_alias(command) \o <<10>>),
                                   IF ret < 0 THEN ret
                                   ELSE Len(as_bytes(expand_alias(command) \o <<10>>)))
         IN IF sid \notin DOMAIN sessions THEN w
            ELSE LET hooks == RunOnCommandStart(sessions[sid].plugins, command, sid) IN
                 Ret([sessions EXCEPT ![sid].plugins = hooks.plugins],
                     active_session, w.res, None, hooks.ev \o w.ev)

\* A command submission that tells the plugins the command has ended as soon
\* as it is written.
run_command_pty_ends(command, ret) ==
    IF get_active_session = None THEN NoActiveSession
    ELSE LET sid == get_active_session
             w == write_to_session(sid, as_bytes(command \o <<10>>), ret)
         IN IF sid \notin DOMAIN sessions THEN w
            ELSE LET hooks == RunOnCommandStart(sessions[sid].plugins, command, sid) IN
                 Ret([sessions EXCEPT ![sid].plugins =
                         [i \in 1..Len(hooks.plugins) |->
                             on_command_end(hooks.plugins[i], None, sid)]],
                     active_session, w.res, None,
                     hooks.ev \o w.ev \o HookCalls(hooks.plugins, "on_command_end"))

\* run_command_pty: on_command_start on the plugins of the active session,
\* then format!("{}\n", command) is written to it.
run_command_pty(command, ret) ==
    IF get_active_session = None THEN NoActiveSession
    ELSE LET sid == get_active_session
             w == write_to_session(sid, as_bytes(command \o <<10>>), ret)
         IN IF sid \notin DOMAIN sessions THEN w
            ELSE LET hooks == RunOnCommandStart(sessions[sid].plugins, command, sid) IN
                 Ret([sessions EXCEPT ![sid].plugins = hooks.plugins],
                     active_session, w.res, None, hooks.ev \o w.ev)

\* A send_input that takes the input for a command line.
send_input_as_command(input, ret) ==
    IF ret < 0 THEN run_command_pty(input, ret)
    ELSE run_command_pty(input, Len(as_bytes(input \o <<10>>)))

\* send_input: the input is written to the active session as it is.
send_input(input, ret) ==
    IF get_active_session = None THEN NoActiveSession
    ELSE write_to_session(get_active_session, as_bytes(input), ret)

resize_terminal(cols, rows, ok) ==
    IF get_active_session = None THEN NoActiveSession
    ELSE resize_session(get_active_session, cols, rows, ok)

\* A close_terminal that closes some session when none is active.
close_terminal_any ==
    IF get_active_session = None
        THEN IF DOMAIN sessions = {} THEN NoActiveSession
             ELSE close_session(CHOOSE o \in DOMAIN sessions : TRUE)
    ELSE close_session(get_active_session)

close_terminal ==
    IF get_active_session = None THEN NoActiveSession
    ELSE close_session(get_active_session)

\* list_plugins: the names of the active session's plugins, returned in Ok.
list_plugins ==
    IF get_active_session # None /\ get_active_session \in DOMAIN sessions
        THEN Ret(sessions, active_session, "Ok",
                 [i \in 1..Len(sessions[get_active_session].plugins) |->
                     sessions[get_active_session].plugins[i].name], <<>>)
    ELSE Ret(sessions, active_session, "No active session", None, <<>>)

\* ------------------------------------------- calls of the operations
\* A call leaves the manager as the method returns it.
Returns(r) ==
    /\ sessions' = r.sessions
    /\ active_session' = r.active_session

\* A successful create_session has spawned the listener task for a PTY whose
\* slave side runs the shell.
CallCreate(size, pty) ==
    /\ guard = Free
    /\ new_v4 # None
    /\ Returns(create_session(new_v4, size, pty))
    /\ IF pty = "Ok"
           THEN /\ issued' = issued \cup {new_v4}
                /\ listener' = [listener EXCEPT ![new_v4].pc = "Spawned"]
                /\ shell' = [shell EXCEPT ![new_v4] = "running"]
       ELSE UNCHANGED <<issued, listener, shell>>
    /\ UNCHANGED <<sink, guard>>

CallWrite(sid, data, ret) ==
    /\ guard = Free
    /\ ret \in {-1} \cup 1..Len(data)
    /\ Returns(write_to_session(sid, data, ret))
    /\ UNCHANGED <<issued, listener, shell, sink, guard>>

CallResize(sid, size, ok) ==
    /\ guard = Free
    /\ Returns(resize_session(sid, size[1], size[2], ok))
    /\ UNCHANGED <<issued, listener, shell, sink, guard>>

\* The removed session is dropped as close_session returns, and with it the
\* session's Arc of the PTY.
CallClose(sid) ==
    /\ guard = Free
    /\ Returns(close_session(sid))
    /\ shell' = AfterDrop(sessions', listener)
    /\ UNCHANGED <<issued, listener, sink, guard>>

CallSetActive(sid) ==
    /\ guard = Free
    /\ Returns(set_active_session(sid))
    /\ UNCHANGED <<issued, listener, shell, sink, guard>>

\* The Tauri commands lock TERMINAL_MANAGER for their whole body.
CmdCreateShell(pty) == CallCreate(<<DefaultColumns, DefaultRows>>, pty)

\* The history a HistoryPlugin keeps grows with every command: the commands
\* submitted to one session are bounded by MaxHistory.
CmdRunCommand(command, ret) ==
    /\ guard = Free
    /\ ret \in {-1} \cup 1..Len(as_bytes(command \o <<10>>))
    /\ \A sid \in DOMAIN sessions : \A i \in 1..Len(sessions[sid].plugins) :
           Len(sessions[sid].plugins[i].history) < MaxHistory
    /\ Returns(run_command_pty(command, ret))
    /\ UNCHANGED <<issued, listener, shell, sink, guard>>

CmdSendInput(input, ret) ==
    /\ guard = Free
    /\ ret \in {-1} \cup 1..Len(as_bytes(input))
    /\ Returns(send_input(input, ret))
    /\ UNCHANGED <<issued, listener, shell, sink, guard>>

CmdResizeTerminal(size, ok) ==
    /\ guard = Free
    /\ Returns(resize_terminal(size[1], size[2], ok))
    /\ UNCHANGED <<issued, listener, shell, sink, guard>>

CmdCloseTerminal ==
    /\ guard = Free
    /\ Returns(close_terminal)
    /\ shell' = AfterDrop(sessions', listener)
    /\ UNCHANGED <<issued, listener, sink, guard>>

CmdListPlugins ==
    /\ guard = Free
    /\ Returns(list_plugins)
    /\ UNCHANGED <<issued, listener, shell, sink, guard>>

\* ------------------------------------------------ the output listener
\* The spawned task's first block: lock the PTY slot and try_clone_reader().
\* unwrap() on a failed clone panics the task, which ends it.
\* The panic unwinds with the PTY's guard held and poisons that mutex; what a
\* later `pty.lock().unwrap()` of a caller then does depends on the build's
\* panic strategy and is not followed here.
ListenerStart(sid, ok) ==
    /\ listener[sid].pc = "Spawned"
    /\ PtyLockHolder(sid) = "-"
    /\ listener' = [listener EXCEPT ![sid] =
                       IF ok THEN [@ EXCEPT !.pc = "Reading"]
                       ELSE [@ EXCEPT !.pc = "Stopped", !.exit = "panic"]]
    /\ shell' = AfterDrop(sessions, listener')
    /\ UNCHANGED <<sessions, active_session, issued, sink, guard>>

\* A read whose bytes must be valid UTF-8: the listener gives up on others.
ReadOkStrict(l, bytes) ==
    IF \E i \in 1..Len(from_utf8_lossy(bytes)) : from_utf8_lossy(bytes)[i] = Replacement
        THEN [l EXCEPT !.pc = "Stopped", !.exit = "read", !.n = @ + 1]
    ELSE [l EXCEPT !.pc = "Decoded", !.n = @ + 1, !.raw = bytes,
                   !.out = from_utf8_lossy(bytes)]

\* Ok(n), n > 0: `String::from_utf8_lossy(&buffer[..n])` is the chunk in hand.
ReadOk(l, bytes) ==
    [l EXCEPT !.pc = "Decoded", !.n = @ + 1, !.raw = bytes,
              !.out = from_utf8_lossy(bytes)]

\* reader.read(&mut buffer) returns Ok(n), n > 0.  The slave side has data
\* only while the shell holds it open.
ListenerReadChunk(sid, bytes) ==
    /\ listener[sid].pc = "Reading"
    /\ shell[sid] = "running"
    /\ TotalReads(listener, Ids) < MaxReads
    /\ listener' = [listener EXCEPT ![sid] = ReadOk(@, bytes)]
    /\ UNCHANGED <<sessions, active_session, issued, shell, sink, guard>>

\* A listener that takes its session out of the registry when it stops.
ListenerReadEndRemoves(sid, how) ==
    /\ listener[sid].pc = "Reading"
    /\ \/ how = "eof" /\ shell[sid] # "running"
       \/ how = "error"
    /\ listener' = [listener EXCEPT ![sid].pc = "Stopped", ![sid].exit = "read"]
    /\ sessions' = Remove(sessions, sid)
    /\ active_session' = IF active_session = sid THEN None ELSE active_session
    /\ shell' = [i \in Ids |->
                    IF shell[i] = "running" /\ ~MasterOpen(i, sessions', listener')
                        THEN "hungup" ELSE shell[i]]
    /\ UNCHANGED <<issued, sink, guard>>

\* A listener that reports the end of its PTY to the sink as an empty chunk.
ListenerReadEndEmits(sid, how) ==
    /\ listener[sid].pc = "Reading"
    /\ \/ how = "eof" /\ shell[sid] # "running"
       \/ how = "error"
    /\ listener' = [listener EXCEPT ![sid].pc = "Stopped", ![sid].exit = "read"]
    /\ sink' = Append(sink, [sid |-> sid, n |-> listener[sid].n + 1, raw |-> <<>>,
                              text |-> <<>>, ev |-> <<>>])
    /\ shell' = AfterDrop(sessions, listener')
    /\ UNCHANGED <<sessions, active_session, issued, guard>>

\* reader.read returns Ok(0), once the slave side is closed, or Err(e): break.
\* The task ends and drops its reader and its Arc of the PTY.
ListenerReadEnd(sid, how) ==
    /\ listener[sid].pc = "Reading"
    /\ \/ how = "eof" /\ shell[sid] # "running"
       \/ how = "error"
    /\ listener' = [listener EXCEPT ![sid].pc = "Stopped", ![sid].exit = "read"]
    /\ shell' = AfterDrop(sessions, listener')
    /\ UNCHANGED <<sessions, active_session, issued, sink, guard>>

\* A listener that falls back to the built-in chain when its session is gone.
ProcessedByDefault(l, sid) ==
    LET plugins == IF sid \in DOMAIN sessions THEN sessions[sid].plugins
                   ELSE DefaultPlugins
    IN [l EXCEPT !.pc = "Processed",
                 !.out = RunOnOutput(plugins, @),
                 !.ev = HookCalls(plugins, "on_output")]

\* The block under TERMINAL_MANAGER.lock(): the chunk goes through the plugins
\* of the session if the id is in the map, and is kept as decoded if not.
\* ev is the on_output calls made.
Processed(l, sid) ==
    IF sid \in DOMAIN sessions
        THEN [l EXCEPT !.pc = "Processed",
                       !.out = RunOnOutput(sessions[sid].plugins, @),
                       !.ev = HookCalls(sessions[sid].plugins, "on_output")]
    ELSE [l EXCEPT !.pc = "Processed", !.ev = <<>>]

ListenerProcess(sid) ==
    /\ guard = Free
    /\ listener[sid].pc = "Decoded"
    /\ listener' = [listener EXCEPT ![sid] = Processed(@, sid)]
    /\ UNCHANGED <<sessions, active_session, issued, shell, sink, guard>>

\* A sink that puts the newest event first.
EmitFirst(events, sid, l) ==
    <<[sid |-> sid, n |-> l.n, raw |-> l.raw, text |-> l.out, ev |-> l.ev]>> \o events

\* What app_handle.emit("terminal-output", ..) delivers: one event, after
\* those delivered before it.  The event carries the text; the listener's id,
\* the number of the read, the bytes read and the on_output calls made are
\* kept with it for reference.
Emit(events, sid, l) ==
    Append(events, [sid |-> sid, n |-> l.n, raw |-> l.raw, text |-> l.out, ev |-> l.ev])

\* app_handle.emit: on Ok the loop reads again, on Err the task breaks.
ListenerEmit(sid, ok) ==
    /\ listener[sid].pc = "Processed"
    /\ IF ok
           THEN /\ sink' = Emit(sink, sid, listener[sid])
                /\ listener' = [listener EXCEPT ![sid] =
                                   [NoListener EXCEPT !.pc = "Reading", !.n = listener[sid].n]]
       ELSE /\ listener' = [listener EXCEPT ![sid] =
                               [NoListener EXCEPT !.pc = "Stopped", !.exit = "emit",
                                                  !.n = listener[sid].n]]
            /\ UNCHANGED sink
    /\ shell' = AfterDrop(sessions, listener')
    /\ UNCHANGED <<sessions, active_session, issued, guard>>

\* ------------------------------------------------------- environment
\* The child shell exits on its own (the user's `exit`, a signal).
ShellExit(sid) ==
    /\ shell[sid] = "running"
    /\ shell' = [shell EXCEPT ![sid] = "exited"]
    /\ UNCHANGED <<sessions, active_session, issued, listener, sink, guard>>

\* ------------------------------------------------------ specification
ManagerStep ==
    \/ \E size \in Sizes, pty \in PtyResults : CallCreate(size, pty)
    \/ \E sid \in Ids, data \in WriteData, ret \in -1..2 : CallWrite(sid, data, ret)
    \/ \E sid \in Ids, size \in Sizes, ok \in BOOLEAN : CallResize(sid, size, ok)
    \/ \E sid \in Ids : CallClose(sid)
    \/ \E sid \in Ids : CallSetActive(sid)

ListenerStep(sid) ==
    \/ \E ok \in BOOLEAN : ListenerStart(sid, ok)
    \/ \E bytes \in ReadChunks : ListenerReadChunk(sid, bytes)
    \/ \E how \in {"eof", "error"} : ListenerReadEnd(sid, how)
    \/ ListenerProcess(sid)
    \/ \E ok \in BOOLEAN : ListenerEmit(sid, ok)

Next ==
    \/ ManagerStep
    \/ \E sid \in Ids : ListenerStep(sid)
    \/ \E sid \in Ids : ShellExit(sid)

Spec == Init /\ [][Next]_vars

\* What the scheduler and the kernel guarantee of a listener task: it starts,
\* it gets the manager's mutex, its emit call returns, and a read on a PTY
\* whose slave side is closed returns.  Nothing makes the shell write or exit,
\* or a caller call.
ListenerFairness(sid) ==
    /\ WF_vars(\E ok \in BOOLEAN : ListenerStart(sid, ok))
    /\ WF_vars(ListenerProcess(sid))
    /\ WF_vars(\E ok \in BOOLEAN : ListenerEmit(sid, ok))
    /\ WF_vars(ListenerReadEnd(sid, "eof"))

FairSpec == Spec /\ \A sid \in Ids : ListenerFairness(sid)

\* ------------------------------------------- the steps under the locks
\* The calls and the listener's blocks, split where a thread takes a lock or
\* blocks.  guard tells what the holder of TERMINAL_MANAGER is doing, for
\* which session, with which data.

\* write_to_session is called with TERMINAL_MANAGER locked (it takes &mut
\* self): the session is found, then the PTY's mutex is taken, then
\* libc::write is called on the master, which blocks while the PTY's input
\* queue is full; WriteEnd is the return of libc::write and of the call.
WriteBegin(sid, data) ==
    /\ guard = Free
    /\ sid \in DOMAIN sessions
    /\ guard' = [op |-> "pty.lock", sid |-> sid, data |-> data]
    /\ UNCHANGED <<sessions, active_session, issued, listener, shell, sink>>

WriteLockPty ==
    /\ guard.op = "pty.lock"
    /\ PtyLockHolder(guard.sid) = "-"
    /\ guard' = [guard EXCEPT !.op = "libc::write"]
    /\ UNCHANGED <<sessions, active_session, issued, listener, shell, sink>>

WriteEnd(ret) ==
    /\ guard.op = "libc::write"
    /\ ret \in {-1} \cup 1..Len(guard.data)
    /\ Returns(write_to_session(guard.sid, guard.data, ret))
    /\ guard' = Free
    /\ UNCHANGED <<issued, listener, shell, sink>>

\* create_shell: the guard is taken, the PTY is opened, the shell started and
\* the listener task spawned, the session being a local of create_session;
\* CreateEnd is the rest of the call: the on_session_start loop, the insert,
\* the active pointer and the return.
CreateBegin ==
    /\ guard = Free
    /\ new_v4 # None
    /\ guard' = [op |-> "create_session", sid |-> new_v4, data |-> <<>>]
    /\ issued' = issued \cup {new_v4}
    /\ listener' = [listener EXCEPT ![new_v4].pc = "Spawned"]
    /\ shell' = [shell EXCEPT ![new_v4] = "running"]
    /\ UNCHANGED <<sessions, active_session, sink>>

CreateEnd ==
    /\ guard.op = "create_session"
    /\ Returns(create_shell(guard.sid, "Ok"))
    /\ guard' = Free
    /\ UNCHANGED <<issued, listener, shell, sink>>

\* run_command_pty: the guard is taken, the on_command_start loop runs on the
\* active session's plugins, then write_to_session is called.
RunBegin(command) ==
    /\ guard = Free
    /\ active_session # None /\ active_session \in DOMAIN sessions
    /\ \A i \in 1..Len(sessions[active_session].plugins) :
           Len(sessions[active_session].plugins[i].history) < MaxHistory
    /\ guard' = [op |-> "on_command_start", sid |-> active_session, data |-> command]
    /\ UNCHANGED <<sessions, active_session, issued, listener, shell, sink>>

\* A run_command_pty that drops the guard after the hooks and leaves the write
\* to a later call.
RunHooksDoneUnlocks ==
    /\ guard.op = "on_command_start"
    /\ sessions' = [sessions EXCEPT ![guard.sid].plugins =
                        RunOnCommandStart(@, guard.data, guard.sid).plugins]
    /\ guard' = Free
    /\ UNCHANGED <<active_session, issued, listener, shell, sink>>

RunHooksDone ==
    /\ guard.op = "on_command_start"
    /\ sessions' = [sessions EXCEPT ![guard.sid].plugins =
                        RunOnCommandStart(@, guard.data, guard.sid).plugins]
    /\ guard' = [op |-> "pty.lock", sid |-> guard.sid,
                 data |-> as_bytes(guard.data \o <<10>>)]
    /\ UNCHANGED <<active_session, issued, listener, shell, sink>>

\* close_session: the guard is taken, the session removed and on_session_end
\* run on its plugins; CloseEnd is the return of the call.
CloseBegin(sid) ==
    /\ guard = Free
    /\ sid \in DOMAIN sessions
    /\ guard' = [op |-> "on_session_end", sid |-> sid, data |-> <<>>]
    /\ UNCHANGED <<sessions, active_session, issued, listener, shell, sink>>

CloseEnd ==
    /\ guard.op = "on_session_end"
    /\ Returns(close_session(guard.sid))
    /\ guard' = Free
    /\ shell' = AfterDrop(sessions', listener)
    /\ UNCHANGED <<issued, listener, sink>>

\* The task's first block, in two steps: `pty.lock().unwrap()`, then
\* `try_clone_reader().unwrap()` and the end of the block, which drops the
\* PTY's guard.
ListenerLockPty(sid) ==
    /\ listener[sid].pc = "Spawned"
    /\ PtyLockHolder(sid) = "-"
    /\ listener' = [listener EXCEPT ![sid].pc = "Locked"]
    /\ UNCHANGED <<sessions, active_session, issued, shell, sink, guard>>

\* A listener that needs TERMINAL_MANAGER to leave its first block.
ListenerCloneReaderUnderGuard(sid, ok) ==
    /\ listener[sid].pc = "Locked"
    /\ guard = Free
    /\ listener' = [listener EXCEPT ![sid] =
                       IF ok THEN [@ EXCEPT !.pc = "Reading"]
                       ELSE [@ EXCEPT !.pc = "Stopped", !.exit = "panic"]]
    /\ shell' = AfterDrop(sessions, listener')
    /\ UNCHANGED <<sessions, active_session, issued, sink, guard>>

ListenerCloneReader(sid, ok) ==
    /\ listener[sid].pc = "Locked"
    /\ listener' = [listener EXCEPT ![sid] =
                       IF ok THEN [@ EXCEPT !.pc = "Reading"]
                       ELSE [@ EXCEPT !.pc = "Stopped", !.exit = "panic"]]
    /\ shell' = AfterDrop(sessions, listener')
    /\ UNCHANGED <<sessions, active_session, issued, sink, guard>>

\* A listener that walks the plugins without TERMINAL_MANAGER.
ListenerTakeNoGuard(sid) ==
    /\ listener[sid].pc = "Decoded"
    /\ listener' = [listener EXCEPT ![sid].pc = "Chain"]
    /\ UNCHANGED <<sessions, active_session, issued, shell, sink, guard>>

\* The block of lines 198-209, in two steps: `TERMINAL_MANAGER.lock()`, then
\* the lookup, the on_output loop and the end of the block, which drops the
\* guard.
ListenerTakeGuard(sid) ==
    /\ listener[sid].pc = "Decoded"
    /\ guard = Free
    /\ listener' = [listener EXCEPT ![sid].pc = "Chain"]
    /\ guard' = [op |-> "on_output", sid |-> sid, data |-> <<>>]
    /\ UNCHANGED <<sessions, active_session, issued, shell, sink>>

\* A listener that forwards the chunk as decoded although its session is in
\* the map.
ListenerRunChainSkips(sid) ==
    /\ listener[sid].pc = "Chain"
    /\ listener' = [listener EXCEPT ![sid].pc = "Processed", ![sid].ev = <<>>]
    /\ guard' = IF guard.op = "on_output" /\ guard.sid = sid THEN Free ELSE guard
    /\ UNCHANGED <<sessions, active_session, issued, shell, sink>>

\* A listener that keeps TERMINAL_MANAGER after its block.
ListenerRunChainKeepsGuard(sid) ==
    /\ listener[sid].pc = "Chain"
    /\ listener' = [listener EXCEPT ![sid] = Processed(@, sid)]
    /\ UNCHANGED <<sessions, active_session, issued, shell, sink, guard>>

ListenerRunChain(sid) ==
    /\ listener[sid].pc = "Chain"
    /\ listener' = [listener EXCEPT ![sid] = Processed(@, sid)]
    /\ guard' = IF guard.op = "on_output" /\ guard.sid = sid THEN Free ELSE guard
    /\ UNCHANGED <<sessions, active_session, issued, shell, sink>>

NextLocks ==
    \/ \E pty \in PtyResults \ {"Ok"} : CmdCreateShell(pty)
    \/ CreateBegin
    \/ CreateEnd
    \/ \E sid \in Ids : CallSetActive(sid)
    \/ \E sid \in Ids, data \in WriteData : WriteBegin(sid, data)
    \/ WriteLockPty
    \/ \E ret \in -1..6 : WriteEnd(ret)
    \/ \E command \in Commands : RunBegin(command)
    \/ RunHooksDone
    \/ \E sid \in Ids : CloseBegin(sid)
    \/ CloseEnd
    \/ \E sid \in Ids : ListenerLockPty(sid)
    \/ \E sid \in Ids, ok \in BOOLEAN : ListenerCloneReader(sid, ok)
    \/ \E sid \in Ids, bytes \in ReadChunks : ListenerReadChunk(sid, bytes)
    \/ \E sid \in Ids, how \in {"eof", "error"} : ListenerReadEnd(sid, how)
    \/ \E sid \in Ids : ListenerTakeGuard(sid)
    \/ \E sid \in Ids : ListenerRunChain(sid)
    \/ \E sid \in Ids, ok \in BOOLEAN : ListenerEmit(sid, ok)
    \/ \E sid \in Ids : ShellExit(sid)

SpecLocks == Init /\ [][NextLocks]_vars

\* --------------------------------------------- chains of any plugins
\* A session's `plugins` is a public Vec of trait objects: the chain may hold
\* any plugins, in any order.  One session is registered with such a chain:
\* its listener runs, commands and raw input are sent to it, and it is closed.
ChainNames == {"history", "alias", "color", "timing", "upper", "lower", "star"}

RECURSIVE Chains(_)
Chains(len) ==
    IF len = 0 THEN { <<>> }
    ELSE Chains(len - 1) \cup
         { Append(c, Plugin(name)) : c \in { d \in Chains(len - 1) : Len(d) = len - 1 },
                                     name \in ChainNames }

InitChain ==
    /\ \E chain \in Chains(MaxChain) :
           sessions = [i \in {1} |->
                          [config |-> [columns |-> DefaultColumns, rows |-> DefaultRows],
                           plugins |-> chain]]
    /\ active_session = 1
    /\ issued = {1}
    /\ listener = [i \in Ids |-> IF i = 1 THEN [NoListener EXCEPT !.pc = "Spawned"]
                                 ELSE NoListener]
    /\ shell = [i \in Ids |-> IF i = 1 THEN "running" ELSE "none"]
    /\ sink = <<>>
    /\ guard = Free

NextChain ==
    \/ \E command \in Commands, ret \in -1..6 : CmdRunCommand(command, ret)
    \/ \E input \in Inputs, ret \in -1..2 : CmdSendInput(input, ret)
    \/ \E sid \in Ids : ListenerStep(sid)
    \/ \E sid \in Ids : CallClose(sid)
    \/ \E sid \in Ids : ShellExit(sid)

SpecChain == InitChain /\ [][NextChain]_vars

\* ------------------------------------------- the Tauri command surface
\* The program as the UI drives it: the registered commands, the listeners
\* and the shells, from an empty manager.  Every session has the chain and
\* the geometry create_shell gives it.
InitCmd == Init

NextCmd ==
    \/ \E pty \in PtyResults : CmdCreateShell(pty)
    \/ \E command \in Commands, ret \in -1..6 : CmdRunCommand(command, ret)
    \/ \E input \in Inputs, ret \in -1..2 : CmdSendInput(input, ret)
    \/ \E size \in Sizes, ok \in BOOLEAN : CmdResizeTerminal(size, ok)
    \/ CmdCloseTerminal
    \/ CmdListPlugins
    \/ \E sid \in Ids : ListenerStep(sid)
    \/ \E sid \in Ids : ShellExit(sid)

SpecCmd == InitCmd /\ [][NextCmd]_vars

\* ------------------------------------------- the runtime's worker threads
\* The commands are `async fn`s and the listener is an async block given to
\* tokio::spawn: all of them are tasks of the one runtime, polled by its
\* Workers threads.  The listener's block has no await: once polled it keeps
\* its worker until the loop ends, also while it is blocked in reader.read.
\* A command has no await either and runs to its return on the worker that
\* polls it.
BusyWorkers == { sid \in Ids : listener[sid].pc \in Running }

WorkerFree == Cardinality(BusyWorkers) < Workers

PollCommand ==
    /\ WorkerFree
    /\ \/ \E pty \in PtyResults : CmdCreateShell(pty)
       \/ \E input \in Inputs, ret \in -1..2 : CmdSendInput(input, ret)
       \/ \E size \in Sizes, ok \in BOOLEAN : CmdResizeTerminal(size, ok)
       \/ CmdCloseTerminal

PollListener(sid) ==
    /\ WorkerFree
    /\ \E ok \in BOOLEAN : ListenerStart(sid, ok)

NextWorkers ==
    \/ PollCommand
    \/ \E sid \in Ids : PollListener(sid)
    \/ \E sid \in Ids, bytes \in ReadChunks : ListenerReadChunk(sid, bytes)
    \/ \E sid \in Ids, how \in {"eof", "error"} : ListenerReadEnd(sid, how)
    \/ \E sid \in Ids : ListenerProcess(sid)
    \/ \E sid \in Ids, ok \in BOOLEAN : ListenerEmit(sid, ok)
    \/ \E sid \in Ids : ShellExit(sid)

SpecWorkers == Init /\ [][NextWorkers]_vars

\* ================================================================ claims
\* The ids whose session close_session has removed.
Closed == issued \ DOMAIN sessions

\* What every operation returns for an id that is not in the map.
SessionNotFound == Ret(sessions, active_session, "Session not found", None, <<>>)

\* C1: in every reachable state active_session is empty or the id of a
\* session that is in the sessions map.
C1_ActiveIsLive == active_session = None \/ active_session \in DOMAIN sessions

\* C1's case: a session has been closed and active_session names a live one.
C1_Witness == Closed # {} /\ active_session \in DOMAIN sessions

\* C2: once close_session has removed a session, no event of that session's
\* listener is added to the sink.
C2_NoEmitAfterRemoval ==
    [][\A sid \in Closed :
          \A i \in (Len(sink) + 1)..Len(sink') : sink'[i].sid # sid]_vars

\* C3: after close_session(id) succeeds the listener of id eventually reaches
\* Stopped, whether or not the shell exits on its own.
C3_CloseStopsListener ==
    \A sid \in Ids : (sid \in Closed) ~> (listener[sid].pc = "Stopped")

\* C4: no shell outlives its session: once close_session(id) has succeeded
\* and dropped the session, the PTY is closed and the shell of id runs no more.
C4_NoShellOutlivesSession ==
    \A sid \in Closed : ~MasterOpen(sid, sessions, listener) /\ shell[sid] # "running"

\* C5: for an id that is not in the map, write_to_session, resize_session,
\* close_session and set_active_session return "Session not found", do no
\* PTY I/O, call no hook, and leave the map and active_session as they are.
C5_AbsentIdIsSessionNotFound ==
    \A sid \in Ids \ DOMAIN sessions :
        /\ \A data \in WriteData, ret \in -1..2 :
               write_to_session(sid, data, ret) = SessionNotFound
        /\ \A size \in Sizes, ok \in BOOLEAN :
               resize_session(sid, size[1], size[2], ok) = SessionNotFound
        /\ close_session(sid) = SessionNotFound
        /\ set_active_session(sid) = SessionNotFound

\* C5's case: the id of a closed session is used while another session is
\* registered and active.
C5_Witness ==
    /\ active_session \in DOMAIN sessions
    /\ \E sid \in Closed :
           /\ close_session(sid).res = "Session not found"
           /\ set_active_session(sid).res = "Session not found"

\* C6: close_session on a registered id removes that id and no other, leaves
\* the other sessions as they are, empties active_session if it named the id
\* (it is not given to another session) and leaves it alone if not.
C6_CloseFrame ==
    \A sid \in DOMAIN sessions :
        LET r == close_session(sid) IN
        /\ r.res = "Ok"
        /\ DOMAIN r.sessions = DOMAIN sessions \ {sid}
        /\ \A o \in DOMAIN r.sessions : r.sessions[o] = sessions[o]
        /\ r.active_session = IF active_session = sid THEN None ELSE active_session

\* C6's case: the active session has been closed while another session stays
\* registered, and active_session is empty.
C6_Witness == Closed # {} /\ DOMAIN sessions # {} /\ active_session = None

\* C7: a successful create_session returns an id that was not in the map,
\* adds that session and changes no other, and get_active_session() is then
\* the new id.
C7_CreateFrame ==
    new_v4 # None =>
        \A size \in Sizes :
            LET r == create_session(new_v4, size, "Ok") IN
            /\ r.res = "Ok"
            /\ r.id \notin DOMAIN sessions
            /\ DOMAIN r.sessions = DOMAIN sessions \cup {r.id}
            /\ \A o \in DOMAIN sessions : r.sessions[o] = sessions[o]
            /\ r.active_session = r.id

\* C7's case: a session was created while an older one was registered, and
\* it is the active one.
C7_Witness ==
    /\ Cardinality(DOMAIN sessions) >= 2
    /\ \A o \in DOMAIN sessions : o <= active_session

\* The places in the sink of the events of sid's listener.
EventsOf(sid) == { i \in 1..Len(sink) : sink[i].sid = sid }

C9_SinkInReadOrder ==
    \A i, j \in 1..Len(sink) :
        (i < j /\ sink[i].sid = sink[j].sid) => sink[i].n < sink[j].n

\* C9's case: two chunks of one session have been delivered, with a close of
\* the session before the second.
C9_Witness ==
    \E i, j \in 1..Len(sink) :
        /\ i < j /\ sink[i].sid = sink[j].sid
        /\ sink[i].raw # sink[j].raw
        /\ sink[i].ev # <<>> /\ sink[j].ev = <<>>

\* P_n.on_output(... P_1.on_output(text) ...), from the outermost call inwards.
RECURSIVE Composed(_, _)
Composed(names, text) ==
    IF names = <<>> THEN text
    ELSE on_output(Plugin(names[Len(names)]),
                   Composed(SubSeq(names, 1, Len(names) - 1), text))

\* C10: the text sent to the sink is P_n.on_output(...P_1.on_output(chunk)...)
\* for the plugin list [P_1..P_n] of the session; "ok" through [upper, star]
\* is "*OK", and through [upper, lower] it is "ok".
C10_OnOutputComposes ==
    \A i \in 1..Len(sink) :
        LET e == sink[i]
            names == [k \in 1..Len(e.ev) |-> e.ev[k].plugin]
        IN /\ e.text = Composed(names, from_utf8_lossy(e.raw))
           /\ e.sid \in DOMAIN sessions =>
                  names = [k \in 1..Len(sessions[e.sid].plugins) |->
                              sessions[e.sid].plugins[k].name]
           /\ (names = <<"upper", "star">> /\ e.raw = <<111, 107>>) => e.text = <<42, 79, 75>>
           /\ (names = <<"upper", "lower">> /\ e.raw = <<111, 107>>) => e.text = <<111, 107>>

\* C10's case: "ok" has gone through the chain [upper, star] and "*OK" is in
\* the sink.
C10_Witness ==
    \E i \in 1..Len(sink) :
        /\ [k \in 1..Len(sink[i].ev) |-> sink[i].ev[k].plugin] = <<"upper", "star">>
        /\ sink[i].raw = <<111, 107>>
        /\ sink[i].text = <<42, 79, 75>>

\* --------------------------------------------------- command submission
\* libc::write's possible return values for a buffer.
WriteRets(data) == {-1} \cup 1..Len(data)

\* The calls of one kind among the things an operation did, in order.
Only(ev, kinds) == SelectSeq(ev, LAMBDA e : e.k \in kinds)

\* The session the active-session commands act on, if there is one.
HasActive == active_session # None /\ active_session \in DOMAIN sessions

ActivePlugins == sessions[active_session].plugins

\* C11: a command submitted to a session calls on_command_start once on every
\* plugin of the session, in registration order: with plugins [P1, P2] the
\* log of the calls is [P1, P2], never [P2, P1].
C11_CommandStartInOrder ==
    HasActive =>
        \A command \in Commands : \A ret \in WriteRets(as_bytes(command \o <<10>>)) :
            LET log == Only(run_command_pty(command, ret).ev, {"on_command_start"}) IN
            /\ Len(log) = Len(ActivePlugins)
            /\ \A i \in 1..Len(log) :
                   log[i] = Ev("on_command_start", ActivePlugins[i].name, command)

\* C11's case: a command has gone to a session with two different plugins,
\* the second of which recorded it.
C11_Witness ==
    /\ HasActive
    /\ Len(ActivePlugins) = 2
    /\ ActivePlugins[1].name # ActivePlugins[2].name
    /\ ActivePlugins[2].history # <<>>

\* C12: in run_command_pty every on_command_start call of the target session
\* is made before the one PTY write of the command.
C12_HooksBeforeWrite ==
    HasActive =>
        \A command \in Commands : \A ret \in WriteRets(as_bytes(command \o <<10>>)) :
            LET ev == run_command_pty(command, ret).ev IN
            /\ Len(Only(ev, {"on_command_start"})) = Len(ActivePlugins)
            /\ Len(Only(ev, {"pty_write", "pty_write_err"})) = 1
            /\ \A i, j \in 1..Len(ev) :
                   (ev[i].k = "on_command_start" /\ ev[j].k \in {"pty_write", "pty_write_err", "pty_took"})
                       => i < j

\* C12's case: two commands have been submitted to a session whose first
\* plugin recorded both.
C12_Witness ==
    /\ HasActive
    /\ Len(ActivePlugins) = 2
    /\ Len(ActivePlugins[1].history) = 2

\* C13: run_command_pty gives the PTY write the UTF-8 bytes of the command
\* followed by one newline, whatever the plugins of the session are: not the
\* alias plugin's expansion, and nothing the other hooks did.
C13_CommandWrittenAsGiven ==
    HasActive =>
        \A command \in Commands : \A ret \in 1..Len(as_bytes(command \o <<10>>)) :
            LET r == run_command_pty(command, ret) IN
            /\ Only(r.ev, {"pty_write"}) =
                   <<Ev("pty_write", "-", as_bytes(command) \o <<10>>)>>
            /\ command = <<108, 108, 32, 233>> =>
                   Only(r.ev, {"pty_write"})[1].data = <<108, 108, 32, 195, 169, 10>>

\* C13's case: a command whose first word is an alias has gone to a session
\* that has the alias plugin: "ll \u00e9" stands for "ls -la \u00e9".
C13_Witness ==
    /\ HasActive
    /\ \E i, j \in 1..Len(ActivePlugins) :
           /\ ActivePlugins[i].name = "alias"
           /\ ActivePlugins[j].history = << <<108, 108, 32, 233>> >>
    /\ expand_alias(<<108, 108, 32, 233>>) = <<108, 115, 32, 45, 108, 97, 32, 233>>

\* C14: send_input and write_to_session give the PTY write the bytes as they
\* are, with no newline added, call no on_command_start and leave the plugins
\* as they are; run_command_pty is the one that calls on_command_start.
C14_RawInputVerbatim ==
    HasActive =>
        /\ \A input \in Inputs : \A ret \in 1..Len(as_bytes(input)) :
               LET r == send_input(input, ret) IN
               /\ Only(r.ev, {"pty_write"}) = <<Ev("pty_write", "-", as_bytes(input))>>
               /\ Only(r.ev, {"on_command_start"}) = <<>>
               /\ r.sessions = sessions
        /\ \A data \in WriteData : \A ret \in 1..Len(data) :
               LET r == write_to_session(active_session, data, ret) IN
               /\ Only(r.ev, {"pty_write"}) = <<Ev("pty_write", "-", data)>>
               /\ Only(r.ev, {"on_command_start"}) = <<>>
               /\ r.sessions = sessions
        /\ \A command \in Commands :
               Len(Only(run_command_pty(command, 1).ev, {"on_command_start"}))
                   = Len(ActivePlugins)

\* C14's case: raw input can go to a session whose history plugin has
\* recorded the one command submitted to it.
C14_Witness ==
    /\ HasActive
    /\ \E i \in 1..Len(ActivePlugins) :
           /\ ActivePlugins[i].name = "history"
           /\ Len(ActivePlugins[i].history) = 1
    /\ \E input \in Inputs : send_input(input, Len(as_bytes(input))).res = "Ok"

\* C15: resize_session on a registered id sets the stored columns and rows of
\* that session to the ones given, (120, 40) among them, and leaves the other
\* sessions, the set of sessions and active_session as they are.
C15_ResizeFrame ==
    \A sid \in DOMAIN sessions : \A size \in Sizes :
        LET r == resize_session(sid, size[1], size[2], TRUE) IN
        /\ r.res = "Ok"
        /\ DOMAIN r.sessions = DOMAIN sessions
        /\ r.sessions[sid].config = [columns |-> size[1], rows |-> size[2]]
        /\ r.sessions[sid].plugins = sessions[sid].plugins
        /\ \A o \in DOMAIN sessions \ {sid} : r.sessions[o] = sessions[o]
        /\ r.active_session = active_session

\* C15's case: of two sessions that create_shell made 80 by 24, the active
\* one has been resized to 120 by 40 and the other is as it was.
C15_Witness ==
    /\ HasActive
    /\ sessions[active_session].config = [columns |-> 120, rows |-> 40]
    /\ \E o \in DOMAIN sessions \ {active_session} :
           sessions[o].config = [columns |-> DefaultColumns, rows |-> DefaultRows]

\* C16: a chunk that went through a chain of identity plugins only (the
\* default chain of HistoryPlugin and ColorPlugin, or any of the plugins that
\* keep the default on_output) is in the sink as it was decoded, whatever
\* commands were submitted before.
C16_IdentityChainIsNoOp ==
    \A i \in 1..Len(sink) :
        (\A k \in 1..Len(sink[i].ev) : sink[i].ev[k].plugin \in BuiltIn)
            => sink[i].text = from_utf8_lossy(sink[i].raw)

\* C16's case: a chunk has gone through the chain [history, color] of a
\* session whose history plugin has recorded a command.
C16_Witness ==
    \E i \in 1..Len(sink) :
        /\ [k \in 1..Len(sink[i].ev) |-> sink[i].ev[k].plugin] = <<"history", "color">>
        /\ sink[i].text = from_utf8_lossy(sink[i].raw)
        /\ sink[i].sid \in DOMAIN sessions
        /\ sessions[sink[i].sid].plugins[1].history # <<>>

\* C17: every failure is returned to the caller as an error; none ends in a
\* panic: no listener task ends by panicking.
C17_NoFailureIsAPanic == \A sid \in Ids : listener[sid].exit # "panic"

\* C18: when openpty or spawn_command fails, create_session returns the
\* error, adds no session, leaves active_session as it was, starts no
\* listener and calls no hook.
C18_FailedCreateChangesNothing ==
    new_v4 # None =>
        \A size \in Sizes : \A pty \in PtyResults \ {"Ok"} :
            create_session(new_v4, size, pty) =
                Ret(sessions, active_session, pty, None, <<>>)

\* C18's case: create_session can be called, and fail, while a session is
\* registered and active.
C18_Witness ==
    /\ HasActive
    /\ new_v4 # None
    /\ create_session(new_v4, <<DefaultColumns, DefaultRows>>, "Failed to spawn shell").res
           = "Failed to spawn shell"

\* C19: when the listener of a session stops on a zero-byte read or a read
\* error, the sessions map and active_session stay as they are; a session
\* leaves the map only in a step of close_session; and close_session on a
\* registered session whose listener has stopped succeeds and removes it.
C19_StoppedListenerKeepsSession ==
    [][/\ \A sid \in Ids :
             (listener[sid].pc # "Stopped" /\ listener'[sid].pc = "Stopped")
                 => (sessions' = sessions /\ active_session' = active_session)
       /\ \A sid \in DOMAIN sessions \ DOMAIN sessions' :
             /\ sessions' = close_session(sid).sessions
             /\ active_session' = close_session(sid).active_session
       /\ \A sid \in DOMAIN sessions :
             listener[sid].pc = "Stopped" =>
                 /\ close_session(sid).res = "Ok"
                 /\ sid \notin DOMAIN close_session(sid).sessions]_vars

\* C19's case: the listener of the active session has stopped on a read, and
\* the session is registered and active.
C19_Witness ==
    /\ HasActive
    /\ listener[active_session].pc = "Stopped"
    /\ listener[active_session].exit = "read"

\* C20: while a write to session A is inside its PTY write, the manager's
\* guard is free, so that a write to another session B can begin.
C20_WriteDoesNotHoldGuard ==
    \A A, B \in DOMAIN sessions :
        (A # B /\ guard.op = "libc::write" /\ guard.sid = A)
            => \E data \in WriteData : ENABLED WriteBegin(B, data)

\* ------------------------------------------------ no active session
\* C21: with no active session, run_command_pty, send_input, resize_terminal,
\* close_terminal and list_plugins return an error, call no hook, do no PTY
\* I/O and leave the map as it is, also when sessions are registered.
C21_NoActiveSessionIsAnError ==
    active_session = None =>
        /\ \A command \in Commands : \A ret \in WriteRets(as_bytes(command \o <<10>>)) :
               run_command_pty(command, ret) = NoActiveSession
        /\ \A input \in Inputs : \A ret \in WriteRets(as_bytes(input)) :
               send_input(input, ret) = NoActiveSession
        /\ \A size \in Sizes : \A ok \in BOOLEAN :
               resize_terminal(size[1], size[2], ok) = NoActiveSession
        /\ close_terminal = NoActiveSession
        /\ list_plugins = Ret(sessions, None, "No active session", None, <<>>)
        /\ NoActiveSession.res # "Ok" /\ NoActiveSession.ev = <<>>
        /\ NoActiveSession.sessions = sessions

\* C21's case: the active session has been closed and an older session is
\* still registered.
C21_Witness == active_session = None /\ DOMAIN sessions # {} /\ Closed # {}

\* C22: the session-map guard and a session's PTY lock never deadlock.  A
\* listener that holds the PTY lock is not waiting for the guard: it can
\* always take its next step, which releases the PTY lock, whoever holds the
\* guard; and a listener that waits for the guard holds no PTY lock.  So a
\* caller that holds the guard and waits for the PTY lock is never waited on
\* by the listener that holds it.
C22_NoGuardPtyDeadlock ==
    \A sid \in Ids :
        /\ PtyLockHolder(sid) = "listener" =>
               /\ listener[sid].pc = "Locked"
               /\ \A ok \in BOOLEAN : ENABLED ListenerCloneReader(sid, ok)
        /\ listener[sid].pc = "Decoded" => PtyLockHolder(sid) # "listener"
        /\ (guard.op = "pty.lock" /\ guard.sid = sid) =>
               \/ ENABLED WriteLockPty
               \/ \A ok \in BOOLEAN : ENABLED ListenerCloneReader(sid, ok)

\* A caller holds the guard and waits for the PTY lock its listener holds.
C22_Witness ==
    /\ guard.op = "pty.lock"
    /\ PtyLockHolder(guard.sid) = "listener"

\* C23: a session's PTY is never used by two call sites at once.  A listener
\* that is in `reader.read` holds the session's PTY lock, so that no caller is
\* in libc::write on the same session meanwhile.
C23_PtyUsedUnderItsLock ==
    \A sid \in Ids :
        listener[sid].pc = "Reading" =>
            /\ PtyLockHolder(sid) = "listener"
            /\ ~(guard.op = "libc::write" /\ guard.sid = sid)

\* C24: the listener holds the session-map guard only while it locates its
\* session and runs the plugin chain: never while it is in a PTY read, and no
\* longer when it emits.
ListenerHoldsGuard(sid) == guard.op = "on_output" /\ guard.sid = sid

C24_GuardOnlyAroundChain ==
    \A sid \in Ids :
        /\ ListenerHoldsGuard(sid) <=> listener[sid].pc = "Chain"
        /\ listener[sid].pc \in {"Reading", "Processed"} => ~ListenerHoldsGuard(sid)

\* A listener has run the chain on a chunk and is about to emit it, while
\* another listener is in its read.
C24_Witness ==
    \E sid \in Ids, other \in Ids :
        /\ listener[sid].pc = "Processed" /\ Len(listener[sid].ev) > 0
        /\ listener[other].pc = "Reading" /\ listener[other].n > 0
        /\ guard = Free

\* C25: for any one session, at most one thread is inside a hook of that
\* session's plugins at any time: its listener in the on_output pass, or a
\* caller in the on_command_start or on_session_end pass.
HookThreads(sid) ==
    { t \in {"listener", "caller"} :
        \/ t = "listener" /\ listener[sid].pc = "Chain"
        \/ t = "caller" /\ guard.sid = sid
                        /\ guard.op \in {"on_command_start", "on_session_end"} }

C25_OneHookThreadPerSession ==
    \A sid \in Ids : Cardinality(HookThreads(sid)) <= 1

\* A caller is inside the command hooks of a session whose listener has a
\* chunk in hand and waits to run the chain on it.
C25_Witness ==
    \E sid \in Ids :
        /\ HookThreads(sid) = {"caller"}
        /\ listener[sid].pc = "Decoded"

\* C26: hooks of different sessions run in parallel.  While a thread is inside
\* a hook pass of session A, the listener of another session B that has a
\* chunk in hand can enter its own on_output pass without waiting for A's
\* pass to finish.
C26_HooksOfSessionsInParallel ==
    \A A \in Ids, B \in Ids :
        (A # B /\ HookThreads(A) # {} /\ listener[B].pc = "Decoded")
            => ENABLED ListenerTakeGuard(B)

\* C27: a listener blocked in its PTY read stalls nothing else.  When the
\* listeners of all live sessions are blocked in read, a command (create,
\* write, resize, close) can still run, and a listener that has not started
\* yet can start.
C27_BlockedReadsStallNothing ==
    (\A sid \in DOMAIN sessions : listener[sid].pc = "Reading")
        => /\ ENABLED PollCommand
           /\ \A sid \in Ids :
                  listener[sid].pc = "Spawned" => ENABLED PollListener(sid)

C29_RegisteredBeforeSpawn ==
    new_v4 # None =>
        \A size \in Sizes :
            create_session(new_v4, size, "Ok").ev =
                <<Ev("insert", "-", <<>>), Ev("spawn_listener", "-", <<>>)>>
                \o HookCalls(DefaultPlugins, "on_session_start")
                \o <<Ev("set_active", "-", <<>>)>>

\* C30: close_session on a registered id calls on_session_end once on each
\* plugin of the session, in chain order, and takes the session out of the
\* map.  From then on no hook runs on that session's plugins: the id is never
\* registered or active again, so no later create or command reaches it, and
\* a chunk its listener reads afterwards passes no plugin and is delivered
\* as decoded.
C30_NoHookAfterClose ==
    /\ [](\A sid \in DOMAIN sessions :
            LET r == close_session(sid)
                plugins == sessions[sid].plugins
            IN /\ sid \notin DOMAIN r.sessions
               /\ SubSeq(r.ev, 2, Len(plugins) + 1) = HookCalls(plugins, "on_session_end")
               /\ \A k \in 1..Len(r.ev) :
                      r.ev[k].k = "on_session_end" => k \in 2..(Len(plugins) + 1))
    /\ [](\A sid \in Closed : active_session # sid /\ new_v4 # sid)
    /\ [][\A sid \in Closed :
            /\ sid \notin DOMAIN sessions'
            /\ (listener[sid].pc = "Decoded" /\ listener'[sid].pc = "Processed") =>
                   /\ listener'[sid].ev = <<>>
                   /\ listener'[sid].out = listener[sid].out
       ]_vars

\* The listener of a closed session has a chunk in hand that passed no plugin,
\* after an earlier chunk of it went through the chain.
C30_Witness ==
    \E sid \in Closed :
        /\ listener[sid].pc = "Processed" /\ listener[sid].ev = <<>>
        /\ \E i \in EventsOf(sid) : Len(sink[i].ev) > 0

\* C31: when write_to_session returns Ok for a registered session, the PTY
\* has taken the whole of the data, in order and once, also when libc::write
\* takes only a part of the buffer; when libc::write fails, an error is
\* returned.
C31_OkWriteIsWhole ==
    \A sid \in DOMAIN sessions : \A data \in WriteData : \A ret \in WriteRets(data) :
        LET r == write_to_session(sid, data, ret) IN
        /\ ret < 0 => r.res = "Failed to write to PTY"
        /\ r.res = "Ok" =>
               Only(r.ev, {"pty_took"}) = <<Ev("pty_took", "-", data)>>

\* C32: a command submission is atomic.  From the first on_command_start of
\* a run_command_pty call to the return of its PTY write the caller keeps the
\* guard: the hooks are followed by the write of the same call to the same
\* session, which stays registered and active; no session is created, closed,
\* resized or made active meanwhile, the plugins change only by the call's
\* own hooks, and no listener is in or enters an on_output pass.
CallerOps == {"on_command_start", "pty.lock", "libc::write"}

C32_SubmissionIsAtomic ==
    /\ [](guard.op = "on_command_start" =>
             /\ guard.sid = active_session /\ guard.sid \in DOMAIN sessions
             /\ \A sid \in Ids : listener[sid].pc # "Chain")
    /\ [][guard.op \in CallerOps =>
             /\ DOMAIN sessions' = DOMAIN sessions
             /\ active_session' = active_session
             /\ issued' = issued
             /\ \A sid \in DOMAIN sessions :
                    /\ sessions'[sid].config = sessions[sid].config
                    /\ sessions'[sid].plugins # sessions[sid].plugins =>
                           /\ sid = guard.sid
                           /\ guard.op = "on_command_start" /\ guard'.op = "pty.lock"
             /\ \A sid \in Ids : listener'[sid].pc # "Chain"
             /\ guard' # Free => guard'.sid = guard.sid
             /\ guard.op = "on_command_start" =>
                    \/ guard' = guard
                    \/ /\ guard'.op = "pty.lock"
                       /\ guard'.data = as_bytes(guard.data \o <<10>>)
             /\ guard.op = "pty.lock" =>
                    guard' = guard \/ guard' = [guard EXCEPT !.op = "libc::write"]
             /\ guard.op = "libc::write" => guard' = guard \/ guard' = Free
       ]_vars

\* A submitted command is in its PTY write, after its hooks, while the
\* listener of its session has a chunk in hand and waits for the guard, and
\* another session is registered.
C32_Witness ==
    /\ guard.op = "libc::write"
    /\ Len(guard.data) > 0 /\ guard.data[Len(guard.data)] = 10
    /\ \E i \in 1..Len(sessions[guard.sid].plugins) :
           Len(sessions[guard.sid].plugins[i].history) > 0
    /\ listener[guard.sid].pc = "Decoded"
    /\ Cardinality(DOMAIN sessions) = 2

\* C33: no output of a session reaches the sink before create_shell has
\* registered the session and made it active: while the call is under way its
\* listener may read a chunk but neither runs the chain nor emits.  A
\* listener in its on_output pass finds the map as it was when it took the
\* guard; the chunk goes through the whole chain of the session when the id
\* is in the map, and is forwarded as decoded only when it is not.
Creating(sid) == guard.op = "create_session" /\ guard.sid = sid

C33_OutputOnlyAfterRegistered ==
    /\ [](\A sid \in Ids :
            Creating(sid) =>
                /\ sid \notin DOMAIN sessions
                /\ listener[sid].pc \notin {"Chain", "Processed"}
                /\ EventsOf(sid) = {})
    /\ [][\A sid \in Ids :
            /\ (Creating(sid) /\ ~Creating(sid)') =>
                   /\ sid \in DOMAIN sessions' /\ active_session' = sid
                   /\ { i \in 1..Len(sink') : sink'[i].sid = sid } = {}
            /\ listener[sid].pc = "Chain" =>
                   /\ sessions' = sessions
                   /\ listener'[sid].pc = "Processed" =>
                          IF sid \in DOMAIN sessions
                              THEN /\ listener'[sid].ev =
                                         HookCalls(sessions[sid].plugins, "on_output")
                                   /\ Len(listener'[sid].ev) = Len(sessions[sid].plugins)
                                   /\ listener'[sid].out =
                                         RunOnOutput(sessions[sid].plugins, listener[sid].out)
                          ELSE /\ listener'[sid].ev = <<>>
                               /\ listener'[sid].out = listener[sid].out
       ]_vars

\* The listener of a session has read a chunk while create_shell has not
\* registered the session yet, and waits for the guard.
C33_Witness ==
    \E sid \in Ids :
        /\ Creating(sid)
        /\ listener[sid].pc = "Decoded"

\* C34: a write_to_session or resize_session that fails on a registered
\* session returns the error and changes nothing of the manager: the map, the
\* session's plugins and stored columns and rows, and active_session are as
\* before.
C34_FailedCallChangesNothing ==
    \A sid \in DOMAIN sessions :
        /\ \A data \in WriteData :
               LET r == write_to_session(sid, data, -1) IN
               /\ r.res = "Failed to write to PTY"
               /\ r.sessions = sessions /\ r.active_session = active_session
        /\ \A size \in Sizes :
               LET r == resize_session(sid, size[1], size[2], FALSE) IN
               /\ r.res = "Failed to resize PTY"
               /\ r.sessions = sessions /\ r.active_session = active_session
               /\ r.sessions[sid].config = sessions[sid].config

\* A session that has been resized before is asked for another size, and the
\* PTY refuses.
C34_Witness ==
    \E sid \in DOMAIN sessions : \E size \in Sizes :
        /\ sessions[sid].config # [columns |-> DefaultColumns, rows |-> DefaultRows]
        /\ sessions[sid].config # [columns |-> size[1], rows |-> size[2]]
        /\ resize_session(sid, size[1], size[2], FALSE).res = "Failed to resize PTY"
        /\ active_session # sid

\* C35: under the Tauri commands the active session is empty or the session
\* created last.  A session in the map that is not the one created last has
\* been displaced by a later create_shell: it is never active again, so no
\* command writes to it, resizes it or closes it, and it stays in the map as
\* it is.
Latest == CHOOSE sid \in issued : \A o \in issued : o <= sid

Displaced == { sid \in DOMAIN sessions : sid # Latest }

C35_ActiveIsLatestOrNone ==
    /\ [](active_session # None => active_session = Latest)
    /\ [][\A sid \in Displaced :
            /\ active_session' # sid
            /\ sid \in DOMAIN sessions'
            /\ sessions'[sid] = sessions[sid]
       ]_vars

\* The session created last has been closed, and the one it displaced is left
\* in the map with no active session.
C35_Witness ==
    /\ Displaced # {}
    /\ active_session = None
    /\ Latest \in Closed

\* C36: nothing calls on_command_end.  No manager method, Tauri command or
\* listener pass makes the call, whatever its input; so what a plugin records
\* at on_command_start for a session, TimingPlugin's start time, is never
\* taken out again while the session is registered: a later command can only
\* write over it.
NoCommandEnd(ev) == Only(ev, {"on_command_end"}) = <<>>

C36_CommandEndNeverCalled ==
    /\ [](/\ \A command \in Commands : \A ret \in WriteRets(as_bytes(command \o <<10>>)) :
                NoCommandEnd(run_command_pty(command, ret).ev)
          /\ \A input \in Inputs : \A ret \in WriteRets(as_bytes(input)) :
                NoCommandEnd(send_input(input, ret).ev)
          /\ \A size \in Sizes : \A ok \in BOOLEAN :
                NoCommandEnd(resize_terminal(size[1], size[2], ok).ev)
          /\ NoCommandEnd(close_terminal.ev)
          /\ NoCommandEnd(list_plugins.ev)
          /\ new_v4 # None =>
                \A pty \in PtyResults : NoCommandEnd(create_shell(new_v4, pty).ev)
          /\ \A sid \in Ids :
                /\ NoCommandEnd(close_session(sid).ev)
                /\ NoCommandEnd(set_active_session(sid).ev)
                /\ NoCommandEnd(listener[sid].ev)
                /\ NoCommandEnd(Processed(listener[sid], sid).ev)
          /\ \A i \in 1..Len(sink) : NoCommandEnd(sink[i].ev))
    /\ [][\A sid \in DOMAIN sessions \cap DOMAIN sessions' :
            \A i \in 1..Len(sessions[sid].plugins) :
                /\ sessions'[sid].plugins[i].name = sessions[sid].plugins[i].name
                /\ sessions[sid].plugins[i].command_start_times
                       \subseteq sessions'[sid].plugins[i].command_start_times
       ]_vars

\* Two commands have gone to a session that has a TimingPlugin and a
\* HistoryPlugin: the start time is held, and on_command_end would take it.
C36_Witness ==
    /\ HasActive
    /\ \E i, j \in 1..Len(ActivePlugins) :
           /\ ActivePlugins[i].name = "timing"
           /\ ActivePlugins[i].command_start_times = {active_session}
           /\ on_command_end(ActivePlugins[i], None, active_session).command_start_times = {}
           /\ Len(ActivePlugins[j].history) = 2

====
